---- MODULE Spec2Model ----
(***************************************************************************)
(* Model of check-and-correct-dates.py: the ApproxDate value type, the     *)
(* path date guesser guess_date_from_path, and the checker check_date      *)
(* driven by the __main__ directory walk.                                  *)
(*                                                                         *)
(* Strings are sequences of one-character strings.  Three specifications   *)
(* share the module: SpecDates (ApproxDate.__contains__ / __eq__),         *)
(* SpecGuess (guess_date_from_path, statement by statement) and Spec (the  *)
(* __main__ loop calling check_date).                                      *)
(***************************************************************************)
EXTENDS Integers, Sequences, FiniteSets, TLC

VARIABLES
    \* ---- ApproxDate.__contains__ : operands and result
    self,            \* the ApproxDate on the right of `in`
    ts,              \* the left operand: [kind, val]
    isin,            \* what `ts in self` returned
    pcD,             \* "call" | "returned"
    \* ---- guess_date_from_path : locals
    path,            \* the argument
    root,            \* local root
    base,            \* local base
    pat,             \* index of the pattern tried next in PATTERS
    result,          \* the returned value: [tag, date]
    pc,              \* "split" | "patterns" | "while" | "body" | "done"
    dirs,            \* the directory names path was joined from (input)
    file,            \* the file name path was joined from (input)
    absolute,        \* whether path starts with "/" (input)
    \* ---- __main__ / check_date
    img,             \* the file visited last: [path, openable, exif]; exif is the
                     \* EXIF DateTime string, <<>> when the image has none
    run,             \* "walking" | "finished" | "aborted" | "hung"
    line,            \* first column of the report line printed last
    path_ts,         \* check_date's path_ts
    img_ts,          \* check_date's img_ts
    precise_enough,  \* check_date's precise_enough: "unset" | "True" | "False"
    count            \* files visited so far

dateVars  == <<self, ts, isin, pcD>>
guessVars == <<path, root, base, pat, result, pc, dirs, file, absolute>>
checkVars == <<img, run, line, path_ts, img_ts, precise_enough, count>>
vars      == <<dateVars, guessVars, checkVars>>

(***************************************************************************)
(* Bounds                                                                  *)
(***************************************************************************)
\* field values range over Base .. Base + MaxSpan
MaxSpan == 1
\* longest chain of ancestor directories of an input path
MaxDepth == 3
\* files the directory walk yields at most
MaxFiles == 2

(***************************************************************************)
(* ApproxDate                                                              *)
(***************************************************************************)
\* Python's None as the value of an unset field
None == -1

\* ApproxDate.__init__: six fields stored verbatim, missing ones default to None
ApproxDate(year, month, day, hour, minute, second) ==
    [year |-> year, month |-> month, day |-> day,
     hour |-> hour, minute |-> minute, second |-> second]

\* an ApproxDate with no field set (a placeholder where no date is held)
NoFields == ApproxDate(None, None, None, None, None, None)

\* the function has not returned / returned None / returned an ApproxDate /
\* (for the function taken as a whole) never returns
Pending     == [tag |-> "pending", date |-> NoFields]
ReturnsNone == [tag |-> "None", date |-> NoFields]
Returns(d)  == [tag |-> "ApproxDate", date |-> d]
Loops       == [tag |-> "loops", date |-> NoFields]

\* ApproxDate(*values) for a list of 1..6 positional arguments
ApproxDateOf(values) ==
    LET arg(i) == IF i <= Len(values) THEN values[i] ELSE None
    IN  ApproxDate(arg(1), arg(2), arg(3), arg(4), arg(5), arg(6))

\* [self.year, self.month, self.day, self.hour, self.minute, self.second]
Values(d) == <<d.year, d.month, d.day, d.hour, d.minute, d.second>>

\* ApproxDate.is_precise
IsPrecise(d) == \A i \in 1..6 : Values(d)[i] # None

\* ApproxDate.__eq__ for two ApproxDate operands
Eq(a, b) ==
    /\ a.year = b.year
    /\ a.month = b.month
    /\ a.day = b.day
    /\ a.hour = b.hour
    /\ a.minute = b.minute
    /\ a.second = b.second

RECURSIVE PairLoopTruthy(_, _, _)
\* faulty variant of the pairwise loop: `if not slf and oth` instead of the None tests
PairLoopTruthy(sv, ov, i) ==
    IF i > 6 THEN TRUE
    ELSE IF (sv[i] = None \/ sv[i] = 0) /\ (ov[i] # None /\ ov[i] # 0) THEN TRUE
    ELSE IF (sv[i] # None /\ sv[i] # 0) /\ (ov[i] = None \/ ov[i] = 0) THEN FALSE
    ELSE IF sv[i] # ov[i] THEN FALSE
    ELSE PairLoopTruthy(sv, ov, i + 1)

RECURSIVE PairLoopNoCompare(_, _, _)
\* faulty variant of the pairwise loop: the `if slf != oth: return False` test is lost
PairLoopNoCompare(sv, ov, i) ==
    IF i > 6 THEN TRUE
    ELSE IF sv[i] = None /\ ov[i] # None THEN TRUE
    ELSE IF sv[i] # None /\ ov[i] = None THEN FALSE
    ELSE PairLoopNoCompare(sv, ov, i + 1)

RECURSIVE PairLoop(_, _, _)
\* the loop `for slf, oth in zip(self_values, other_values)` from pair i on
PairLoop(sv, ov, i) ==
    IF i > 6 THEN TRUE
    ELSE IF sv[i] = None /\ ov[i] # None THEN TRUE
    ELSE IF sv[i] # None /\ ov[i] = None THEN FALSE
    ELSE IF sv[i] # ov[i] THEN FALSE
    ELSE PairLoop(sv, ov, i + 1)

\* faulty variant of __contains__: the more precise side and the less precise side swapped
ContainsSwapped(slf, other) ==
    IF Eq(other, slf) THEN TRUE ELSE PairLoop(Values(other), Values(slf), 1)

\* ApproxDate.__contains__ for an ApproxDate operand: `other in slf`
Contains(slf, other) ==
    IF Eq(other, slf) THEN TRUE ELSE PairLoop(Values(slf), Values(other), 1)

\* ApproxDate.__contains__: dispatch on the operand's type
ContainsAny(slf, t) ==
    CASE t.kind = "approx"   -> Contains(slf, t.val)
      [] t.kind = "datetime" ->
            Contains(slf, ApproxDate(t.val.year, t.val.month, t.val.day,
                                     t.val.hour, t.val.minute, t.val.second))
      [] t.kind = "date"     ->
            Contains(slf, ApproxDate(t.val.year, t.val.month, t.val.day,
                                     None, None, None))
      [] OTHER               -> FALSE

\* ---- inputs of SpecDates
Years   == 2019 .. (2019 + MaxSpan)
Months  == {12}
Days    == 14 .. (14 + MaxSpan)
Hours   == {9}
Minutes == {0}
Seconds == {12, 13}

Opt(S) == S \cup {None}

\* every ApproxDate over the field values, monotonic in precision or not
ApproxDates ==
    {ApproxDate(y, m, d, h, mi, s) :
        y \in Opt(Years), m \in Opt(Months), d \in Opt(Days),
        h \in Opt(Hours), mi \in Opt(Minutes), s \in Opt(Seconds)}

\* datetime.datetime values
Datetimes ==
    {ApproxDate(y, m, d, h, mi, s) :
        y \in Years, m \in Months, d \in Days,
        h \in Hours, mi \in Minutes, s \in Seconds}

\* datetime.date values (the time fields are not part of the value)
Dates ==
    {ApproxDate(y, m, d, None, None, None) : y \in Years, m \in Months, d \in Days}

Operands ==
    {[kind |-> "approx", val |-> v] : v \in ApproxDates}
    \cup {[kind |-> "datetime", val |-> v] : v \in Datetimes}
    \cup {[kind |-> "date", val |-> v] : v \in Dates}
    \cup {[kind |-> "str", val |-> NoFields]}

\* ---- the variables of the parts a specification does not exercise
IdleDates ==
    /\ self = NoFields
    /\ ts = [kind |-> "str", val |-> NoFields]
    /\ isin = FALSE
    /\ pcD = "idle"

IdleGuess ==
    /\ path = <<>>
    /\ root = <<>>
    /\ base = <<>>
    /\ pat = 0
    /\ result = Pending
    /\ pc = "idle"
    /\ dirs = <<>>
    /\ file = <<>>
    /\ absolute = FALSE

IdleCheck ==
    /\ img = [path |-> <<>>, openable |-> FALSE, exif |-> <<>>]
    /\ run = "idle"
    /\ line = "-"
    /\ path_ts = Pending
    /\ img_ts = Pending
    /\ precise_enough = "unset"
    /\ count = 0

(***************************************************************************)
(* Strings, os.path.split and the regular expressions                      *)
(***************************************************************************)
DigitChars == <<"0","1","2","3","4","5","6","7","8","9">>
UpperChars ==
    <<"A","B","C","D","E","F","G","H","I","J","K","L","M","N","O","P","Q","R","S","T","U","V","W","X","Y","Z">>
LowerChars ==
    <<"a","b","c","d","e","f","g","h","i","j","k","l","m","n","o","p","q","r","s","t","u","v","w","x","y","z">>

\* \d on the characters of the model
IsDigit(c) == \E i \in 1..10 : DigitChars[i] = c

DigitVal(c) == (CHOOSE i \in 1..10 : DigitChars[i] = c) - 1

RECURSIVE IntOf(_)
\* int(s) for a string of decimal digits
IntOf(s) ==
    IF s = <<>> THEN 0
    ELSE 10 * IntOf(SubSeq(s, 1, Len(s) - 1)) + DigitVal(s[Len(s)])

\* re.I: characters are compared after case folding
Fold(c) ==
    IF \E i \in 1..26 : UpperChars[i] = c
    THEN LowerChars[CHOOSE i \in 1..26 : UpperChars[i] = c]
    ELSE c

\* F applied to the value of e (e is evaluated once, then bound)
WithValue(e, F(_)) == CHOOSE r \in {F(x) : x \in {e}} : TRUE

RECURSIVE RFindSep(_, _)
\* p.rfind('/', 0, i) + 1 : the index of the last separator among the first i
\* characters, 0 when there is none
RFindSep(p, i) ==
    IF i = 0 THEN 0
    ELSE IF p[i] = "/" THEN i
    ELSE RFindSep(p, i - 1)

RECURSIVE RStripSep(_, _)
\* len(p[:i].rstrip('/'))
RStripSep(p, i) ==
    IF i = 0 THEN 0
    ELSE IF p[i] # "/" THEN i
    ELSE RStripSep(p, i - 1)

\* os.path.split (posixpath): head, tail = p[:i], p[i:], and the head loses its
\* trailing separators unless it consists of separators only
Split(p) ==
    WithValue(RFindSep(p, Len(p)),
              LAMBDA i : [head |-> IF RStripSep(p, i) # 0
                                   THEN SubSeq(p, 1, RStripSep(p, i))
                                   ELSE SubSeq(p, 1, i),
                          tail |-> SubSeq(p, i + 1, Len(p))])

\* ---- matching.  A template is a string in which "#" stands for \d and every
\* ---- other character for itself, compared case-insensitively (re.I); "#" is
\* ---- no literal of any pattern.
ClassMatch(c, t) == IF t = "#" THEN IsDigit(c) ELSE Fold(c) = Fold(t)

\* the template t matches s from position pos on
Tmpl(s, pos, t) ==
    \E q \in {pos} :
        /\ q + Len(t) - 1 <= Len(s)
        /\ \A k \in 1..Len(t) : \E c \in {s[q + k - 1]} : ClassMatch(c, t[k])

\* \d+ at pos, greedy: the position after the run of digits (pos itself when
\* there is no digit; what follows \d+ in every pattern is not a digit, so the
\* greedy match is the only one)
RECURSIVE DigitRunEnd(_, _)
DigitRunEnd(s, pos) ==
    IF pos > Len(s) THEN pos
    ELSE IF ~IsDigit(s[pos]) THEN pos
    ELSE DigitRunEnd(s, pos + 1)

\* int(m.group(...)) for the n characters at pos
IntAt(s, pos, n) == IntOf(SubSeq(s, pos, pos + n - 1))

\* \.(?:jpg|mpg|mp4)
ExtCamera(s, pos) ==
    \/ Tmpl(s, pos, <<".","j","p","g">>)
    \/ Tmpl(s, pos, <<".","m","p","g">>)
    \/ Tmpl(s, pos, <<".","m","p","4">>)

\* \.(?:jpg|png)
ExtPicture(s, pos) ==
    \/ Tmpl(s, pos, <<".","j","p","g">>)
    \/ Tmpl(s, pos, <<".","p","n","g">>)

\* \.(jpe?g|mp4)
ExtWhatsApp(s, pos) ==
    \/ Tmpl(s, pos, <<".","j","p","g">>)
    \/ Tmpl(s, pos, <<".","j","p","e","g">>)
    \/ Tmpl(s, pos, <<".","m","p","4">>)

\* PATTERS[0] (Nexus 5/5X): the captured values as integers, <<>> when no match
\*   ^(?:IMG|VID|PANO)_(\d{4})(\d{2})(\d{2})_(\d{2})(\d{2})(\d{2})(?:_\d+)?\.(?:jpg|mpg|mp4)
PatNexus(b) ==
    LET n == IF Tmpl(b, 1, <<"P","A","N","O">>) THEN 4 ELSE 3
        q == n + 17
    IN  IF /\ \/ Tmpl(b, 1, <<"I","M","G">>)
              \/ Tmpl(b, 1, <<"V","I","D">>)
              \/ Tmpl(b, 1, <<"P","A","N","O">>)
           /\ Tmpl(b, n + 1,
                   <<"_","#","#","#","#","#","#","#","#","_","#","#","#","#","#","#">>)
           /\ \/ /\ Tmpl(b, q, <<"_","#">>)
                 /\ ExtCamera(b, DigitRunEnd(b, q + 1))
              \/ ExtCamera(b, q)
        THEN <<IntAt(b, n + 2, 4), IntAt(b, n + 6, 2), IntAt(b, n + 8, 2),
               IntAt(b, n + 11, 2), IntAt(b, n + 13, 2), IntAt(b, n + 15, 2)>>
        ELSE <<>>

\* PATTERS[1] (Wildfire S/Samsung)
\*   ^(\d{4})-(\d{2})-(\d{2}) (\d{2})\.(\d{2})\.(\d{2})(?:-\d+)?\.(?:jpg|png)
PatSamsung(b) ==
    IF /\ Tmpl(b, 1, <<"#","#","#","#","-","#","#","-","#","#"," ",
                       "#","#",".","#","#",".","#","#">>)
       /\ \/ /\ Tmpl(b, 20, <<"-","#">>)
             /\ ExtPicture(b, DigitRunEnd(b, 21))
          \/ ExtPicture(b, 20)
    THEN <<IntAt(b, 1, 4), IntAt(b, 6, 2), IntAt(b, 9, 2),
           IntAt(b, 12, 2), IntAt(b, 15, 2), IntAt(b, 18, 2)>>
    ELSE <<>>

\* the common head of the WhatsApp patterns, (?:IMG|VID)-\d{8}-WA\d+ : 15
\* characters and at least one digit
WhatsAppHead(b) ==
    /\ Tmpl(b, 1, <<"I","M","G">>) \/ Tmpl(b, 1, <<"V","I","D">>)
    /\ Tmpl(b, 4, <<"-","#","#","#","#","#","#","#","#","-","W","A","#">>)

\* PATTERS[2] (WhatsApp): year, month and day only
\*   ^(?:IMG|VID)-(\d{4})(\d{2})(\d{2})-WA\d+\.(jpe?g|mp4)
PatWhatsApp(b) ==
    IF WhatsAppHead(b) /\ ExtWhatsApp(b, DigitRunEnd(b, 16))
    THEN <<IntAt(b, 5, 4), IntAt(b, 9, 2), IntAt(b, 11, 2)>>
    ELSE <<>>

\* PATTERS[3] (WhatsApp with the timestamp in parentheses)
\*   ^(?:IMG|VID)-\d{8}-WA\d+ \((\d{4})-(\d{2})-(\d{2})T(\d{2})_(\d{2})_(\d{2})\.\d+\)\.(jpe?g|mp4)
PatWhatsAppTs(b) ==
    WithValue(DigitRunEnd(b, 16), LAMBDA e :
        IF /\ WhatsAppHead(b)
           /\ Tmpl(b, e, <<" ","(","#","#","#","#","-","#","#","-","#","#","T",
                           "#","#","_","#","#","_","#","#",".","#">>)
           /\ Tmpl(b, DigitRunEnd(b, e + 22), <<")">>)
           /\ ExtWhatsApp(b, DigitRunEnd(b, e + 22) + 1)
        THEN <<IntAt(b, e + 2, 4), IntAt(b, e + 7, 2), IntAt(b, e + 10, 2),
               IntAt(b, e + 13, 2), IntAt(b, e + 16, 2), IntAt(b, e + 19, 2)>>
        ELSE <<>>)

\* faulty variant of the pattern list: the last pattern is left out
PattersShort(k, b) ==
    CASE k = 1 -> PatNexus(b)
      [] k = 2 -> PatSamsung(b)
      [] k = 3 -> PatWhatsApp(b)
      [] OTHER -> <<>>

\* PATTERS[k-1].match(b): the list of captured values, <<>> for None
Patters(k, b) ==
    CASE k = 1 -> PatNexus(b)
      [] k = 2 -> PatSamsung(b)
      [] k = 3 -> PatWhatsApp(b)
      [] OTHER -> PatWhatsAppTs(b)

\* len(PATTERS)
NumPatters == 4

\* PATH_MONTH_REG.match(b) is not None: ^(\d{2})(01|02|...|12)
PathMonthReg(b) ==
    /\ Tmpl(b, 1, <<"#","#","#","#">>)
    /\ IntAt(b, 3, 2) >= 1
    /\ IntAt(b, 3, 2) <= 12

\* PATH_YEAR_REG.match(b) is not None: ^\d{4}$ ($ also matches before a
\* trailing newline)
PathYearReg(b) ==
    /\ Tmpl(b, 1, <<"#","#","#","#">>)
    /\ (Len(b) = 4 \/ (Len(b) = 5 /\ b[5] = "\n"))

\* the year window: `if year < 1970: year += 100`
Window(year) == IF year < 1970 THEN year + 100 ELSE year

(***************************************************************************)
(* guess_date_from_path                                                    *)
(***************************************************************************)
\* faulty variant of the ancestor test: the year pattern is tried before the month pattern
AncestorDateYearFirst(b) ==
    IF PathYearReg(b)
    THEN Returns(ApproxDate(Window(IntAt(b, 1, 4)), None, None, None, None, None))
    ELSE IF PathMonthReg(b)
    THEN Returns(ApproxDate(Window(1900 + IntAt(b, 1, 2)), IntAt(b, 3, 2),
                            None, None, None, None))
    ELSE Pending

\* one pass of the loop body after the split: the month pattern, then the year
\* pattern, on the ancestor's name; Pending when neither matches
AncestorDate(b) ==
    IF PathMonthReg(b)
    THEN Returns(ApproxDate(Window(1900 + IntAt(b, 1, 2)), IntAt(b, 3, 2),
                            None, None, None, None))
    ELSE IF PathYearReg(b)
    THEN Returns(ApproxDate(Window(IntAt(b, 1, 4)), None, None, None, None, None))
    ELSE Pending

RECURSIVE JoinDirs(_)
\* the directory names joined by "/"
JoinDirs(ds) ==
    IF ds = <<>> THEN <<>>
    ELSE IF Len(ds) = 1 THEN ds[1]
    ELSE JoinDirs(SubSeq(ds, 1, Len(ds) - 1)) \o <<"/">> \o ds[Len(ds)]

\* the parent directory of a file below the directories ds
DirPath(abs, ds) == (IF abs THEN <<"/">> ELSE <<>>) \o JoinDirs(ds)

\* os.path.join(root, file_name) for a file below the directories ds
MakePath(abs, ds, f) ==
    IF ds = <<>> THEN (IF abs THEN <<"/">> ELSE <<>>) \o f
    ELSE DirPath(abs, ds) \o <<"/">> \o f

\* ---- inputs: names from the test cases and the documented layout
\* 'IMG_20140604_074913.jpg'
FileNexus ==
    <<"I","M","G","_","2","0","1","4","0","6","0","4","_","0","7","4","9","1","3",".","j","p","g">>
\* '2014-12-29 12.53.54.jpg'
FileSamsung ==
    <<"2","0","1","4","-","1","2","-","2","9"," ","1","2",".","5","3",".","5","4",".","j","p","g">>
\* 'IMG-20120803-WA0001.jpg'
FileWhatsApp ==
    <<"I","M","G","-","2","0","1","2","0","8","0","3","-","W","A","0","0","0","1",".","j","p","g">>
\* 'IMG-20170730-WA0000 (2017-10-14T07_59_05.000).jpg'
FileWhatsAppTs ==
    <<"I","M","G","-","2","0","1","7","0","7","3","0","-","W","A","0","0","0","0"," ","(","2","0","1","7","-","1","0","-","1","4","T","0","7","_","5","9","_","0","5",".","0","0","0",")",".","j","p","g">>
\* 'DSC_2098.JPG'
FilePlain ==
    <<"D","S","C","_","2","0","9","8",".","J","P","G">>
\* 'img_20141304_074913_1.JPG'
FileMonth13 ==
    <<"i","m","g","_","2","0","1","4","1","3","0","4","_","0","7","4","9","1","3","_","1",".","J","P","G">>
\* 'VID_20140604_074913.mp4'
FileVideo ==
    <<"V","I","D","_","2","0","1","4","0","6","0","4","_","0","7","4","9","1","3",".","m","p","4">>

\* 'IMG_7565.JPG'
FileCanon ==
    <<"I","M","G","_","7","5","6","5",".","J","P","G">>

FileNames ==
    {FileNexus, FileSamsung, FileWhatsApp, FileWhatsAppTs, FilePlain, FileMonth13,
     FileVideo, FileCanon}

\* '2012', '2017', '1204 w', 'Max', '1913', '9912', '1969'
DirYear2012  == <<"2","0","1","2">>
DirYear2017  == <<"2","0","1","7">>
DirMonth1204 == <<"1","2","0","4"," ","w">>
DirMax       == <<"M","a","x">>
DirYear1913  == <<"1","9","1","3">>
DirMonth9912 == <<"9","9","1","2">>
DirYear1969  == <<"1","9","6","9">>

DirNames ==
    {DirYear2012, DirYear2017, DirMonth1204, DirMax, DirYear1913, DirMonth9912, DirYear1969}

\* chains of at most n ancestor directories, outermost first
DirSeqs(n) == UNION {[1..k -> DirNames] : k \in 0..n}

InitGuess ==
    /\ absolute \in BOOLEAN
    /\ dirs \in DirSeqs(MaxDepth)
    /\ file \in FileNames
    /\ path = MakePath(absolute, dirs, file)
    /\ root = <<>>
    /\ base = <<>>
    /\ pat = 0
    /\ result = Pending
    /\ pc = "split"
    /\ IdleDates
    /\ IdleCheck

\* root, base = os.path.split(path)
GSplit ==
    /\ pc = "split"
    /\ \E sp \in {Split(path)} :
          /\ root' = sp.head
          /\ base' = sp.tail
    /\ pat' = 1
    /\ pc' = "patterns"
    /\ UNCHANGED <<path, result, dirs, file, absolute, dateVars, checkVars>>

\* one turn of `for reg in PATTERS`: return on a match, else the next pattern,
\* and on to the while loop when the list is exhausted
GPattern ==
    /\ pc = "patterns"
    /\ IF pat > NumPatters
       THEN /\ pc' = "while"
            /\ UNCHANGED <<pat, result>>
       ELSE \E values \in {Patters(pat, base)} :
              IF values # <<>>
              THEN /\ result' = Returns(ApproxDateOf(values))
                   /\ pc' = "done"
                   /\ UNCHANGED pat
              ELSE /\ pat' = pat + 1
                   /\ UNCHANGED <<pc, result>>
    /\ UNCHANGED <<path, root, base, dirs, file, absolute, dateVars, checkVars>>

\* `while root:` and, when it fails, `return None`
GWhile ==
    /\ pc = "while"
    /\ IF root # <<>>
       THEN /\ pc' = "body"
            /\ UNCHANGED result
       ELSE /\ result' = ReturnsNone
            /\ pc' = "done"
    /\ UNCHANGED <<path, root, base, pat, dirs, file, absolute, dateVars, checkVars>>

\* the loop body: split root again and test the ancestor's name
GBody ==
    /\ pc = "body"
    /\ \E sp \in {Split(root)} :
          /\ root' = sp.head
          /\ base' = sp.tail
          /\ \E d \in {AncestorDate(sp.tail)} :
                IF d # Pending
                THEN /\ result' = d
                     /\ pc' = "done"
                ELSE /\ pc' = "while"
                     /\ UNCHANGED result
    /\ UNCHANGED <<path, pat, dirs, file, absolute, dateVars, checkVars>>

NextGuess == GSplit \/ GPattern \/ GWhile \/ GBody

SpecGuess == InitGuess /\ [][NextGuess]_vars

\* the interpreter keeps executing the function until it returns
FairSpecGuess == SpecGuess /\ WF_vars(NextGuess)

\* ---- the function as a whole, for its callers
\* the for loop over PATTERS from pattern k on
RECURSIVE FileNameDate(_, _)
FileNameDate(b, k) ==
    IF k > NumPatters THEN Pending
    ELSE IF Patters(k, b) # <<>> THEN Returns(ApproxDateOf(Patters(k, b)))
    ELSE FileNameDate(b, k + 1)

\* the while loop from root r on; it never ends when a pass leaves root as it
\* was without returning
RECURSIVE Walk(_)
Walk(r) ==
    IF r = <<>> THEN ReturnsNone
    ELSE WithValue(Split(r), LAMBDA sp :
            IF AncestorDate(sp.tail) # Pending THEN AncestorDate(sp.tail)
            ELSE IF sp.head = r THEN Loops
            ELSE Walk(sp.head))

\* guess_date_from_path(p)
GuessDateFromPath(p) ==
    WithValue(Split(p), LAMBDA sp :
        IF FileNameDate(sp.tail, 1) # Pending
        THEN FileNameDate(sp.tail, 1)
        ELSE Walk(sp.head))

InitDates ==
    /\ self \in ApproxDates
    /\ ts \in Operands
    /\ isin = FALSE
    /\ pcD = "call"
    /\ IdleGuess
    /\ IdleCheck

\* the expression `ts in self`
Compare ==
    /\ pcD = "call"
    /\ isin' = ContainsAny(self, ts)
    /\ pcD' = "returned"
    /\ UNCHANGED <<self, ts, guessVars, checkVars>>

NextDates == Compare

SpecDates == InitDates /\ [][NextDates]_vars

(***************************************************************************)
(* datetime: strptime, construction and subtraction                        *)
(***************************************************************************)
ValueError == [tag |-> "ValueError", date |-> NoFields]

IsLeap(y) == y % 4 = 0 /\ (y % 100 # 0 \/ y % 400 = 0)

DaysInMonth(y, m) ==
    IF m = 2 THEN (IF IsLeap(y) THEN 29 ELSE 28)
    ELSE IF m \in {4, 6, 9, 11} THEN 30 ELSE 31

\* datetime.datetime(...) accepts the six integers (else it raises ValueError)
IsLegalDatetime(d) ==
    /\ d.year >= 1 /\ d.year <= 9999
    /\ d.month >= 1 /\ d.month <= 12
    /\ d.day >= 1 /\ d.day <= DaysInMonth(d.year, d.month)
    /\ d.hour >= 0 /\ d.hour <= 23
    /\ d.minute >= 0 /\ d.minute <= 59
    /\ d.second >= 0 /\ d.second <= 59

\* ApproxDate.as_datetime for a precise date: the datetime, or ValueError
AsDatetime(d) == IF IsLegalDatetime(d) THEN Returns(d) ELSE ValueError

\* to_datetime: datetime.strptime(ts, '%Y:%m:%d %H:%M:%S') on a string with
\* zero-padded fields; ValueError when the shape or the values are not a datetime
ToDatetime(str) ==
    IF /\ Len(str) = 19
       /\ Tmpl(str, 1, <<"#","#","#","#",":","#","#",":","#","#"," ",
                         "#","#",":","#","#",":","#","#">>)
    THEN AsDatetime(ApproxDate(IntAt(str, 1, 4), IntAt(str, 6, 2), IntAt(str, 9, 2),
                               IntAt(str, 12, 2), IntAt(str, 15, 2), IntAt(str, 18, 2)))
    ELSE ValueError

DaysBeforeYear(y) == (y - 1) * 365 + ((y - 1) \div 4) - ((y - 1) \div 100) + ((y - 1) \div 400)

RECURSIVE DaysBeforeMonth(_, _)
DaysBeforeMonth(y, m) ==
    IF m = 1 THEN 0 ELSE DaysBeforeMonth(y, m - 1) + DaysInMonth(y, m - 1)

\* datetime.toordinal()
ToOrdinal(d) == DaysBeforeYear(d.year) + DaysBeforeMonth(d.year, d.month) + d.day

SecondOfDay(d) == d.hour * 3600 + d.minute * 60 + d.second

\* (a - b).seconds : the seconds field of the normalised timedelta, 0..86399,
\* the days being carried in its days field
DeltaSeconds(a, b) == (SecondOfDay(a) - SecondOfDay(b)) % 86400

Abs(x) == IF x < 0 THEN 0 - x ELSE x

(***************************************************************************)
(* check_date and the __main__ loop                                        *)
(***************************************************************************)
\* '2014:06:04 07:49:13'
ExifSame ==
    <<"2","0","1","4",":","0","6",":","0","4"," ","0","7",":","4","9",":","1","3">>
\* '2014:06:04 07:49:12'
ExifSecondBefore ==
    <<"2","0","1","4",":","0","6",":","0","4"," ","0","7",":","4","9",":","1","2">>
\* '2014:06:04 07:49:15'
ExifTwoAfter ==
    <<"2","0","1","4",":","0","6",":","0","4"," ","0","7",":","4","9",":","1","5">>
\* '2014:06:04 07:49:16'
ExifThreeAfter ==
    <<"2","0","1","4",":","0","6",":","0","4"," ","0","7",":","4","9",":","1","6">>
\* '2014:06:05 07:49:13'
ExifDayAfter ==
    <<"2","0","1","4",":","0","6",":","0","5"," ","0","7",":","4","9",":","1","3">>
\* '2012:04:21 10:23:18'
ExifApril2012 ==
    <<"2","0","1","2",":","0","4",":","2","1"," ","1","0",":","2","3",":","1","8">>
\* '2019:10:17 10:23:18'
ExifOther ==
    <<"2","0","1","9",":","1","0",":","1","7"," ","1","0",":","2","3",":","1","8">>
\* '0000:00:00 00:00:00'
ExifUnset ==
    <<"0","0","0","0",":","0","0",":","0","0"," ","0","0",":","0","0",":","0","0">>

\* my_image.datetime: a string, or <<>> for an image that has no such tag
Exifs ==
    {<<>>, ExifSame, ExifSecondBefore, ExifTwoAfter, ExifThreeAfter, ExifDayAfter,
     ExifApril2012, ExifOther, ExifUnset}

\* the directories the walk finds files in
WalkDirs == {<<>>, <<DirYear2012, DirMonth1204>>, <<DirMax>>}

\* what os.walk can yield: a path, whether open() succeeds, the EXIF DateTime
Files ==
    {[path |-> MakePath(a, ds, f), openable |-> o, exif |-> e] :
        a \in BOOLEAN, ds \in WalkDirs, f \in FileNames, o \in BOOLEAN, e \in Exifs}

\* file_name.lower().endswith(('jpg', 'png'))
IsImageName(p) ==
    /\ Len(p) >= 3
    /\ \/ Tmpl(p, Len(p) - 2, <<"j","p","g">>)
       \/ Tmpl(p, Len(p) - 2, <<"p","n","g">>)

\* the outcome of check_date(f): what is left in path_ts, img_ts and
\* precise_enough, the first column of the line printed ("-" when none is), and
\* how the call ends: "returns", "raises" (an exception leaves check_date) or
\* "loops" (guess_date_from_path never returns)
Outcome(p, t, e, l, how) ==
    [path_ts |-> p, img_ts |-> t, precise_enough |-> e, line |-> l, ends |-> how]

CheckDate(f) ==
    IF ~f.openable
    THEN \* open() raises before the try statement is entered
         Outcome(Pending, Pending, "unset", "-", "raises")
    ELSE WithValue(GuessDateFromPath(f.path), LAMBDA p :
        IF p = Loops THEN Outcome(Pending, Pending, "unset", "-", "loops")
        ELSE IF f.exif = <<>>
        THEN \* my_image.datetime raises AttributeError, which is caught
             Outcome(p, Pending, "unset", "E", "returns")
        ELSE WithValue(ToDatetime(f.exif), LAMBDA t :
            IF t = ValueError
            THEN \* strptime raises ValueError, which no except clause names
                 Outcome(p, Pending, "unset", "-", "raises")
            ELSE IF p = ReturnsNone
            THEN \* None.is_precise raises AttributeError, which is caught
                 Outcome(p, t, "unset", "E", "returns")
            ELSE IF IsPrecise(p.date) /\ AsDatetime(p.date) = ValueError
            THEN \* as_datetime raises ValueError
                 Outcome(p, t, "unset", "-", "raises")
            ELSE WithValue(IsPrecise(p.date) /\ Abs(DeltaSeconds(t.date, p.date)) > 2,
                           LAMBDA precise :
                Outcome(p, t, IF precise THEN "True" ELSE "False",
                        IF ~ContainsAny(p.date, [kind |-> "datetime", val |-> t.date])
                           /\ precise
                        THEN "!" ELSE " ",
                        "returns"))))

\* check_date tabulated over the files of the walk
CheckDateOf == [f \in Files |-> CheckDate(f)]

\* the files the loop passes to check_date
ImageFiles == {f \in Files : IsImageName(f.path)}

Init ==
    /\ img = [path |-> <<>>, openable |-> FALSE, exif |-> <<>>]
    /\ run = "walking"
    /\ line = "-"
    /\ path_ts = Pending
    /\ img_ts = Pending
    /\ precise_enough = "unset"
    /\ count = 0
    /\ IdleDates
    /\ IdleGuess

\* the loop visits a file that is no image: nothing is called, nothing printed
Skip ==
    /\ run = "walking"
    /\ count < MaxFiles
    /\ \E f \in Files \ ImageFiles :
          /\ img' = f
          /\ line' = "-"
          /\ path_ts' = Pending
          /\ img_ts' = Pending
          /\ precise_enough' = "unset"
    /\ count' = count + 1
    /\ UNCHANGED <<run, dateVars, guessVars>>

\* the loop visits an image file and calls check_date(img_path)
Visit ==
    /\ run = "walking"
    /\ count < MaxFiles
    /\ \E f \in ImageFiles :
          /\ img' = f
          /\ \E o \in {CheckDateOf[f]} :
                /\ line' = o.line
                /\ path_ts' = o.path_ts
                /\ img_ts' = o.img_ts
                /\ precise_enough' = o.precise_enough
                /\ run' = CASE o.ends = "raises" -> "aborted"
                            [] o.ends = "loops"  -> "hung"
                            [] OTHER             -> "walking"
    /\ count' = count + 1
    /\ UNCHANGED <<dateVars, guessVars>>

\* os.walk is exhausted and the script ends
Finish ==
    /\ run = "walking"
    /\ run' = "finished"
    /\ UNCHANGED <<img, line, path_ts, img_ts, precise_enough, count, dateVars, guessVars>>

Next == Skip \/ Visit \/ Finish

Spec == Init /\ [][Next]_vars

(***************************************************************************)
(* Properties of containment (SpecDates)                                   *)
(***************************************************************************)
Min(S) == CHOOSE x \in S : \A y \in S : x <= y

\* the field-by-field rule as the documentation words it: field i decides when
\* exactly one side is set, or both are set and differ
Decides(sv, ov, i) ==
    \/ sv[i] = None /\ ov[i] # None
    \/ sv[i] # None /\ ov[i] = None
    \/ sv[i] # None /\ ov[i] # None /\ sv[i] # ov[i]

FieldwiseVerdict(slf, other) ==
    LET sv == Values(slf)
        ov == Values(other)
        D  == {i \in 1..6 : Decides(sv, ov, i)}
    IN  IF D = {} THEN TRUE ELSE sv[Min(D)] = None /\ ov[Min(D)] # None

\* C5: for all ApproxDate values self and other, `other in self` is the verdict of
\* the first deciding field in the order year..second (true when self is unset and
\* other set, false otherwise), and true when no field decides.
C5_ContainsIsFieldwise ==
    (pcD = "returned" /\ ts.kind = "approx") => (isin = FieldwiseVerdict(self, ts.val))

\* C5 witness: a comparison decided at a later field by self being unset there
C5_Witness ==
    /\ pcD = "returned" /\ ts.kind = "approx" /\ isin
    /\ self.year # None /\ self.year = ts.val.year
    /\ self.month # None /\ self.day = None /\ ts.val.day # None

\* number of leading fields that are set
Prec(d) == Cardinality({k \in 1..6 : \A j \in 1..k : Values(d)[j] # None})

\* precision is monotonic: no set field after an unset one
Monotone(d) == \A i \in 1..6 : Values(d)[i] # None => i <= Prec(d)

\* d with every field after the k-th unset
Trunc(d, k) ==
    ApproxDateOf([i \in 1..k |-> Values(d)[i]])

\* C6: a fully precise ApproxDate, a datetime and a date are contained in each of
\* their truncations, and a date of lower precision is never contained in a date
\* of strictly higher precision.
C6_MonotonicRelaxation ==
    pcD = "returned" =>
        /\ (ts.kind \in {"approx", "datetime"} /\ IsPrecise(ts.val)
            /\ \E k \in 1..6 : self = Trunc(ts.val, k)) => isin
        /\ (ts.kind = "date" /\ \E k \in 1..3 : self = Trunc(ts.val, k)) => isin
        /\ (ts.kind \in {"approx", "date"} /\ Monotone(ts.val) /\ Monotone(self)
            /\ Prec(ts.val) >= 1 /\ Prec(ts.val) < Prec(self)) => ~isin

\* C6 witness: a datetime found in its year+month truncation
C6_Witness ==
    /\ pcD = "returned" /\ ts.kind = "datetime" /\ isin
    /\ self = Trunc(ts.val, 2)

\* C10: containment is a partial order on all ApproxDate values, monotonic or
\* not: reflexive, antisymmetric (mutual containment means equal fields) and
\* transitive.
C10_PartialOrder ==
    (pcD = "returned" /\ ts.kind = "approx") =>
        /\ (ts.val = self) => isin
        /\ (isin /\ Contains(ts.val, self)) => (Eq(self, ts.val) /\ self = ts.val)
        /\ isin => \A c \in ApproxDates : Contains(ts.val, c) => Contains(self, c)

\* C10 witness: a non-monotonic date contains a different non-monotonic date
C10_Witness ==
    /\ pcD = "returned" /\ ts.kind = "approx" /\ isin
    /\ ~Monotone(self) /\ ~Monotone(ts.val) /\ self # ts.val

(***************************************************************************)
(* Properties of guess_date_from_path (SpecGuess, FairSpecGuess)           *)
(***************************************************************************)
\* what the documented naming conventions say about a name, stated on the
\* name's digits and not through the regular expressions
StartsWithFourDigits(d) == Len(d) >= 4 /\ \A i \in 1..4 : IsDigit(d[i])

Num4(d) ==
    1000 * DigitVal(d[1]) + 100 * DigitVal(d[2]) + 10 * DigitVal(d[3]) + DigitVal(d[4])

\* a month folder YYMM...: two digits of year, then a month 01..12
IsMonthFolder(d) == StartsWithFourDigits(d) /\ (Num4(d) % 100) \in 1..12

\* a bare four-digit name
IsBareFourDigits(d) == StartsWithFourDigits(d) /\ Len(d) = 4

DateBearing(d) == IsMonthFolder(d) \/ IsBareFourDigits(d)

\* the index in dirs of the innermost date-bearing ancestor, 0 when there is none
Innermost ==
    LET S == {i \in 1..Len(dirs) : DateBearing(dirs[i])}
    IN  IF S = {} THEN 0 ELSE CHOOSE i \in S : \A j \in S : j <= i

After1970(y) == IF y < 1970 THEN y + 100 ELSE y

YearOnly(d)  == ApproxDate(After1970(Num4(d)), None, None, None, None, None)
YearMonth(d) ==
    ApproxDate(After1970(1900 + (Num4(d) \div 100)), Num4(d) % 100, None, None, None, None)

\* the file names that follow a device naming convention, with the date each
\* one spells (test_guess_date_from_path, and its patterns' optional parts)
DatedFiles == {FileNexus, FileSamsung, FileWhatsApp, FileWhatsAppTs, FileMonth13, FileVideo}

SpelledDate(f) ==
    CASE f = FileNexus      -> ApproxDate(2014, 6, 4, 7, 49, 13)
      [] f = FileSamsung    -> ApproxDate(2014, 12, 29, 12, 53, 54)
      [] f = FileWhatsApp   -> ApproxDate(2012, 8, 3, None, None, None)
      [] f = FileWhatsAppTs -> ApproxDate(2017, 10, 14, 7, 59, 5)
      [] f = FileMonth13    -> ApproxDate(2014, 13, 4, 7, 49, 13)
      [] f = FileVideo      -> ApproxDate(2014, 6, 4, 7, 49, 13)
      [] OTHER              -> NoFields

\* C1: guess_date_from_path terminates for every path, relative or absolute, and
\* returns None when neither the file name nor any ancestor name carries a date.
C1_TerminatesWithUnknown ==
    /\ <>(pc = "done")
    /\ []((pc = "done" /\ file \notin DatedFiles /\ Innermost = 0) => result = ReturnsNone)

\* C2: with no file-name match, when the innermost date-bearing ancestor has a
\* bare four-digit name N the result is the year-only date N (N+100 below 1970).
C2_BareYearFolder ==
    (pc = "done" /\ file \notin DatedFiles /\ Innermost # 0
        /\ IsBareFourDigits(dirs[Innermost]))
    => result = Returns(YearOnly(dirs[Innermost]))

\* C3: a file name that matches a file-name pattern decides the result, whatever
\* the ancestor directories are, and the ancestors are not walked.
C3_FileNameFirst ==
    (pc = "done" /\ file \in DatedFiles) =>
        /\ result = Returns(SpelledDate(file))
        /\ root = DirPath(absolute, dirs)

\* C3 witness: a dated file name below a year and a month folder of another date
C3_Witness ==
    /\ pc = "done"
    /\ file = FileWhatsAppTs
    /\ dirs = <<DirYear2012, DirMonth1204>>
    /\ result = Returns(ApproxDate(2017, 10, 14, 7, 59, 5))

\* C4: with no file-name match the ancestors are examined innermost first; the
\* ones passed over carry no date, the first date-bearing one alone gives the
\* result (a month folder YYMM gives year 1900+YY, +100 below 1970, and month
\* MM), and the walk stops there.
C4_InnermostAncestorDecides ==
    /\ (pc \in {"while", "body"}) =>
          \E k \in 0..Len(dirs) :
              /\ root = DirPath(absolute, SubSeq(dirs, 1, k))
              /\ \A j \in (k + 1)..Len(dirs) : ~DateBearing(dirs[j])
    /\ (pc = "done" /\ file \notin DatedFiles /\ Innermost # 0) =>
          /\ base = dirs[Innermost]
          /\ root = DirPath(absolute, SubSeq(dirs, 1, Innermost - 1))
          /\ result = Returns(IF IsMonthFolder(dirs[Innermost])
                              THEN YearMonth(dirs[Innermost])
                              ELSE YearOnly(dirs[Innermost]))

\* C4 witness: a month folder found after a nearer ancestor without a date was
\* passed over, with a year folder further out left unread
C4_Witness ==
    /\ pc = "done"
    /\ file = FilePlain
    /\ dirs = <<DirYear2017, DirMonth1204, DirMax>>
    /\ result = Returns(ApproxDate(2012, 4, None, None, None, None))

(***************************************************************************)
(* Properties of check_date and the __main__ loop (Spec)                   *)
(***************************************************************************)
\* check_date printed a line for img with a parsed capture time and a path date
Compared ==
    /\ run \in {"walking", "finished"}
    /\ count > 0
    /\ img_ts.tag = "ApproxDate"
    /\ path_ts.tag = "ApproxDate"

\* the distance between two points in time, in seconds
SecondsApart(a, b) ==
    Abs((ToOrdinal(a) - ToOrdinal(b)) * 86400 + (SecondOfDay(a) - SecondOfDay(b)))

\* C7: for an image with a readable capture time T and a path date P the line is
\* flagged ("!") when T is not contained in P and unflagged when it is.
C7_FlagsMisfiled ==
    Compared =>
        /\ ~Contains(path_ts.date, img_ts.date) => line = "!"
        /\ Contains(path_ts.date, img_ts.date) => line = " "

\* C8: precise_enough is true exactly when the path date is fully precise and
\* the two timestamps are more than 2 seconds apart, whichever is earlier and
\* however many days lie between them.
C8_PreciseEnough ==
    Compared =>
        ((precise_enough = "True")
            <=> (IsPrecise(path_ts.date) /\ SecondsApart(img_ts.date, path_ts.date) > 2))

\* C9: no failure while one image is processed aborts the run: check_date
\* returns normally and the loop goes on.
C9_FailureNeverAborts == run # "aborted"

====
